---------------------------- MODULE Spec2Model ----------------------------
(***************************************************************************)
(* Model of wayfire's animation core (duration_t, timed_transition_t,      *)
(* simple_animation_t, animation_description_t and its option codec).      *)
(*                                                                         *)
(* Time is the wall clock in whole milliseconds.  A C++ double is modelled *)
(* as an exact rational <<numerator, denominator>>; the non-linear easing  *)
(* curves are sampled (see Sampled).                                     *)
(***************************************************************************)
EXTENDS Integers, Sequences, FiniteSets, TLC

(***************************************************************************)
(* Bounds of the model.                                                    *)
(***************************************************************************)
\* Largest configured duration (ms) an option takes.
MaxDur == 2
\* Number of milliseconds the clock advances during a run.
MaxTime == 2
\* Endpoints handed to set()/animate() range over 0..MaxVal.
MaxVal == 1
\* Number of restart_with_end()/restart_same_end() captures between two set().
MaxRestart == 1
\* Number of milliseconds the system clock is set back during a run.
MaxBack == 1
\* Number of error lines the appmenu handler writes to the log during a run.
MaxLog == 1

(***************************************************************************)
(* Doubles as exact rationals.                                             *)
(***************************************************************************)
Abs(x) == IF x < 0 THEN 0 - x ELSE x

Max(a, b) == IF a < b THEN b ELSE a

Min(a, b) == IF a < b THEN a ELSE b

RECURSIVE Gcd(_, _)
Gcd(a, b) == IF b = 0 THEN a ELSE Gcd(b, a % b)

\* The rational n/d in lowest terms, d > 0.
Rat(n, d) ==
    LET g == Gcd(Abs(n), Abs(d))
        s == IF d < 0 THEN 0 - 1 ELSE 1
    IN  <<(s * n) \div g, (s * d) \div g>>

Zero == <<0, 1>>

One == <<1, 1>>

RInt(i) == <<i, 1>>

RAdd(x, y) ==
    LET l == (x[2] \div Gcd(x[2], y[2])) * y[2]
    IN  Rat(x[1] * (l \div x[2]) + y[1] * (l \div y[2]), l)

RNeg(x) == <<0 - x[1], x[2]>>

RSub(x, y) == RAdd(x, RNeg(y))

RMul(x, y) ==
    LET a == Rat(x[1], y[2])
        b == Rat(y[1], x[2])
    IN  Rat(a[1] * b[1], a[2] * b[2])

RLess(x, y) == x[1] * y[2] < y[1] * x[2]

\* std::clamp(x, 0.0, 1.0)
Clamp01(x) == IF RLess(x, Zero) THEN Zero ELSE IF RLess(One, x) THEN One ELSE x

(***************************************************************************)
(* Smoothing functions.  linear is exact.  circle, sigmoid and             *)
(* ease_out_elastic are the values of the C++ expressions at the points    *)
(* k/12 (k = 0..12), rounded to the nearest 1/400, and linear in between.  *)
(* In particular circle(0) = 0, circle(1) = 1, sigmoid(1) = 1,             *)
(* ease_out_elastic(0) = 0, ease_out_elastic(1) = 1, and                   *)
(* sigmoid(0) = sigmoid_max / (1 + e^6) = 0.0025 > 0.                      *)
(***************************************************************************)
EaseUnit == 20 * 20

EaseGrid == 3 * 4

linear(x) == x

circle_samples == <<0, 160, 221, 265, 298, 325, 346, 364, 377, 387, 394, 399, 400>>

sigmoid_samples == <<1, 3, 7, 19, 48, 108, 200, 293, 353, 382, 394, 398, 400>>

ease_out_elastic_samples == <<0, 256, 422, 461, 437, 408, 394, 393, 397, 400, 401, 401, 400>>

\* The sampled curve at x in [0, 1].
Sampled(samples, x) ==
    LET k  == (EaseGrid * x[1]) \div x[2]
        r  == (EaseGrid * x[1]) % x[2]
        lo == samples[k + 1]
        hi == samples[Min(k + 2, EaseGrid + 1)]
    IN  Rat(lo * x[2] + r * (hi - lo), EaseUnit * x[2])

circle(x) == Sampled(circle_samples, x)

sigmoid(x) == Sampled(sigmoid_samples, x)

ease_out_elastic(x) == Sampled(ease_out_elastic_samples, x)

\* The names of easing_map, in its (sorted) order.
easing_map == {"circle", "easeOutElastic", "linear", "sigmoid"}

\* easing_map.at(name)(x)
Ease(name, x) ==
    CASE name = "linear" -> linear(x)
      [] name = "circle" -> circle(x)
      [] name = "sigmoid" -> sigmoid(x)
      [] name = "easeOutElastic" -> ease_out_elastic(x)

(***************************************************************************)
(* Text.  A std::string is the sequence of its characters; a double read   *)
(* from text or written to it is a whole number of Ulp'ths, exact for the  *)
(* decimals of at most FracDigits digits the inputs are made of (binary    *)
(* rounding and the exponent notation are outside the inputs).             *)
(***************************************************************************)
FracDigits == 6 + 1

Ulp == 10 * 1000 * 1000

Digits == <<"0", "1", "2", "3", "4", "5", "6", "7", "8", "9">>

IsDigit(c) == \E i \in 1..10 : Digits[i] = c

DigitVal(c) == (CHOOSE i \in 1..10 : Digits[i] = c) - 1

IsSpace(c) == c = " "

Drop(s, n) == SubSeq(s, n + 1, Len(s))

RECURSIVE SkipWs(_)
SkipWs(s) == IF s # <<>> /\ IsSpace(Head(s)) THEN SkipWs(Tail(s)) ELSE s

RECURSIVE TakeWord(_)
TakeWord(s) ==
    IF s = <<>> \/ IsSpace(Head(s)) THEN <<>>
    ELSE <<Head(s)>> \o TakeWord(Tail(s))

RECURSIVE TakeDigits(_)
TakeDigits(s) ==
    IF s # <<>> /\ IsDigit(Head(s)) THEN <<Head(s)>> \o TakeDigits(Tail(s))
    ELSE <<>>

RECURSIVE DecimalValue(_)
DecimalValue(ds) ==
    IF ds = <<>> THEN 0
    ELSE 10 * DecimalValue(SubSeq(ds, 1, Len(ds) - 1)) + DigitVal(ds[Len(ds)])

RECURSIVE PadRight(_, _)
PadRight(ds, n) ==
    IF Len(ds) >= n THEN SubSeq(ds, 1, n) ELSE PadRight(ds \o <<"0">>, n)

RECURSIVE PadLeft(_, _)
PadLeft(ds, n) == IF Len(ds) >= n THEN ds ELSE PadLeft(<<"0">> \o ds, n)

RECURSIVE DecimalText(_)
DecimalText(n) ==
    IF n < 10 THEN <<Digits[n + 1]>>
    ELSE DecimalText(n \div 10) \o <<Digits[(n % 10) + 1]>>

\* The text of an easing's name.
Text(name) ==
    CASE name = "linear"         -> <<"l", "i", "n", "e", "a", "r">>
      [] name = "circle"         -> <<"c", "i", "r", "c", "l", "e">>
      [] name = "sigmoid"        -> <<"s", "i", "g", "m", "o", "i", "d">>
      [] name = "easeOutElastic" -> <<"e", "a", "s", "e", "O", "u", "t",
                                      "E", "l", "a", "s", "t", "i", "c">>
      [] name = "cubic-bezier"   -> <<"c", "u", "b", "i", "c", "-",
                                      "b", "e", "z", "i", "e", "r">>
      [] name = "ms"             -> <<"m", "s">>
      [] name = "s"              -> <<"s">>

(***************************************************************************)
(* std::istringstream: the unread characters and the failbit.  An          *)
(* extraction from a failed stream leaves its operand x as it was; one     *)
(* that fails for want of input writes 0 to a double and nothing to a      *)
(* string.                                                                 *)
(***************************************************************************)
istringstream(s) == [buf |-> s, fail |-> FALSE]

\* F applied to the value of v: a local variable initialised with v.
With(v, F(_)) == CHOOSE r \in {F(x) : x \in {v}} : TRUE

\* stream >> x, x a double
ExtractDouble(stream, x) ==
    IF stream.fail THEN [stream |-> stream, val |-> x]
    ELSE LET s    == SkipWs(stream.buf)
             sign == s # <<>> /\ Head(s) \in {"-", "+"}
             s1   == IF sign THEN Tail(s) ELSE s
             ip   == TakeDigits(s1)
             s2   == Drop(s1, Len(ip))
             dot  == s2 # <<>> /\ Head(s2) = "."
             fp   == IF dot THEN TakeDigits(Tail(s2)) ELSE <<>>
             s3   == IF dot THEN Drop(s2, 1 + Len(fp)) ELSE s2
             mag  == DecimalValue(ip) * Ulp + DecimalValue(PadRight(fp, FracDigits))
         IN  IF ip = <<>> /\ fp = <<>>
             THEN [stream |-> [buf |-> s3, fail |-> TRUE], val |-> 0]
             ELSE [stream |-> [buf |-> s3, fail |-> FALSE],
                   val |-> IF sign /\ Head(s) = "-" THEN 0 - mag ELSE mag]

\* stream >> x, x a std::string
ExtractString(stream, x) ==
    IF stream.fail THEN [stream |-> stream, val |-> x]
    ELSE LET s == SkipWs(stream.buf)
         IN  IF s = <<>>
             THEN [stream |-> [buf |-> s, fail |-> TRUE], val |-> x]
             ELSE [stream |-> [buf |-> Drop(s, Len(TakeWord(s))), fail |-> FALSE],
                   val |-> TakeWord(s)]

\* (int)x: truncation towards zero
TruncToInt(x) == IF x >= 0 THEN x \div Ulp ELSE 0 - ((0 - x) \div Ulp)

\* (int)(x * 1000)
TimesThousand(x) ==
    IF x >= 0 THEN x \div (Ulp \div 1000) ELSE 0 - ((0 - x) \div (Ulp \div 1000))

(***************************************************************************)
(* The conversions of the configuration library this file calls.           *)
(***************************************************************************)
\* from_string<int>: the whole text is an integer, or nothing.
from_string_int(value) ==
    LET neg == value # <<>> /\ Head(value) = "-"
        ds  == IF neg THEN Tail(value) ELSE value
    IN  IF ds # <<>> /\ TakeDigits(ds) = ds
        THEN [ok |-> TRUE,
              val |-> IF neg THEN 0 - DecimalValue(ds) ELSE DecimalValue(ds)]
        ELSE [ok |-> FALSE, val |-> 0]

\* to_string<int>
to_string_int(n) ==
    IF n < 0 THEN <<"-">> \o DecimalText(0 - n) ELSE DecimalText(n)

\* to_string<double>: fixed notation, six decimals, rounded to nearest.
to_string_double(x) ==
    LET mag     == IF x < 0 THEN 0 - x ELSE x
        rounded == (mag + 5) \div 10
        whole   == rounded \div (Ulp \div 10)
        frac    == rounded % (Ulp \div 10)
    IN  (IF x < 0 THEN <<"-">> ELSE <<>>)
          \o DecimalText(whole) \o <<".">>
          \o PadLeft(DecimalText(frac), FracDigits - 1)

\* to_string<std::string>
to_string_string(value) == value

(***************************************************************************)
(* animation_description_t and its codec                                   *)
(***************************************************************************)
EpsHalf == 67108864

\* |a - b| <= epsilon * |a + b|, epsilon = 2^-52 = 1 / (EpsHalf * EpsHalf)
epsilon_comparison(a, b) ==
    \/ Abs(a - b) = 0
    \/ (Abs(a + b) \div Abs(a - b)) \div EpsHalf >= EpsHalf

Description(length_ms, easing, easing_name) ==
    [ok |-> TRUE, length_ms |-> length_ms, easing |-> easing,
     easing_name |-> easing_name]

\* An empty std::optional<animation_description_t>.
Nullopt == [ok |-> FALSE, length_ms |-> 0, easing |-> <<>>, easing_name |-> <<>>]

\* animation_description_t::operator==.  Both streams are made from
\* this->easing_name.  garbage holds what the uninitialised doubles of the
\* two groups happen to contain; an extraction that fails leaves it there.
operator_eq(this, other, garbage) ==
    IF this.easing_name = other.easing_name
    THEN this.length_ms = other.length_ms
    ELSE
    With(ExtractString(istringstream(this.easing_name), <<>>), LAMBDA type_a :
    With(ExtractString(istringstream(this.easing_name), <<>>), LAMBDA type_b :
    With(ExtractDouble(type_a.stream, garbage[1]), LAMBDA x1_a :
    With(ExtractDouble(x1_a.stream, garbage[1]), LAMBDA y1_a :
    With(ExtractDouble(y1_a.stream, garbage[1]), LAMBDA x2_a :
    With(ExtractDouble(type_b.stream, garbage[2]), LAMBDA x1_b :
    With(ExtractDouble(x1_b.stream, garbage[2]), LAMBDA y1_b :
    With(ExtractDouble(y1_b.stream, garbage[2]), LAMBDA x2_b :
    With(ExtractDouble(x2_b.stream, garbage[2]), LAMBDA y2_b :
        IF type_a.val # Text("cubic-bezier") \/ type_b.val # Text("cubic-bezier")
        THEN FALSE
        ELSE /\ epsilon_comparison(x1_a.val, x1_b.val)
             /\ epsilon_comparison(y1_a.val, y1_b.val)
             /\ epsilon_comparison(x2_a.val, x2_b.val)
             /\ epsilon_comparison(y2_b.val, y2_b.val))))))))))

\* The name from_string gives a cubic-bezier easing.
BezierName(x1, y1, x2, y2) ==
    Text("cubic-bezier")
      \o <<" ">> \o to_string_double(x1) \o <<" ">> \o to_string_double(y1)
      \o <<" ">> \o to_string_double(x2) \o <<" ">> \o to_string_double(y2)

\* from_string<animation_description_t>
from_string(value) ==
    With(from_string_int(value), LAMBDA val :
    IF val.ok
    THEN Description(val.val, <<"circle">>, Text("circle"))
    ELSE
    With(ExtractDouble(istringstream(value), 0), LAMBDA N :
    With(ExtractString(N.stream, <<>>), LAMBDA suffix :
    With(ExtractString(suffix.stream, <<>>), LAMBDA word :
    With(IF word.stream.fail THEN Text("circle") ELSE word.val, LAMBDA name :
    With(\E n \in easing_map : Text(n) = name, LAMBDA named :
    With(ExtractDouble(word.stream, 0), LAMBDA x1 :
    With(ExtractDouble(x1.stream, 0), LAMBDA y1 :
    With(ExtractDouble(y1.stream, Ulp), LAMBDA x2 :
    With(ExtractDouble(x2.stream, Ulp), LAMBDA y2 :
    With(ExtractString(IF named THEN word.stream ELSE y2.stream, <<>>), LAMBDA tmp :
        IF suffix.stream.fail THEN Nullopt
        ELSE IF suffix.val # Text("ms") /\ suffix.val # Text("s") THEN Nullopt
        ELSE IF ~named /\ name # Text("cubic-bezier") THEN Nullopt
        ELSE IF ~tmp.stream.fail THEN Nullopt
        ELSE Description(
                 IF suffix.val = Text("s") THEN TimesThousand(N.val)
                 ELSE TruncToInt(N.val),
                 IF named THEN <<CHOOSE n \in easing_map : Text(n) = name>>
                 ELSE <<"cubic-bezier", x1.val, y1.val, x2.val, y2.val>>,
                 IF named THEN name
                 ELSE BezierName(x1.val, y1.val, x2.val, y2.val)))))))))))))

\* to_string that writes the duration in seconds' unit.
to_string_seconds(value) ==
    to_string_int(value.length_ms) \o <<"s", " ">>
      \o to_string_string(value.easing_name)

\* to_string<animation_description_t>
to_string(value) ==
    to_string_int(value.length_ms) \o <<"m", "s", " ">>
      \o to_string_string(value.easing_name)

(***************************************************************************)
(* State.                                                                  *)
(*                                                                         *)
(* There are two option objects owned by the configuration subsystem, an   *)
(* option_t<int> and an option_t<animation_description_t>; a tracker holds *)
(* a shared_ptr to one of them or nullptr.  A description's easing is the  *)
(* function registered under its easing_name.                              *)
(*                                                                         *)
(* "A" is a simple_animation_t (a duration_t and the timed_transition_t    *)
(* bound to it by the constructor), "B" a second duration_t.  heap holds   *)
(* the duration_t::impl objects, priv[t] is tracker t's shared_ptr<impl>   *)
(* (0 before t is constructed), tt is A's timed_transition_t.              *)
(***************************************************************************)
VARIABLES
    now,        \* std::chrono::system_clock::now(), in ms
    optInt,     \* value of the option_t<int>
    optDescr,   \* value of the option_t<animation_description_t>
    heap,       \* impl id -> duration_t::impl
    priv,       \* tracker -> impl id
    tt,         \* timed_transition_t of A: duration (impl id), start, end
    ret,        \* what the last running() call returned
    fault,      \* the exception that left the program, if any
    phase,      \* history of A: "idle" before start(), "armed" after start(),
                \* "done" once running() has reported the end
    born,       \* history: how t got its impl (by) and the duration source
                \* t's constructor bound (source)
    restarts,   \* history: number of restart_*() captures since the last set()
    codec,      \* the description codec's caller: the text and the descriptions
                \* it holds, what a == b (eq) and b == a (eq_swapped)
                \* gave it, and how far it has got (stage)
    appmenu     \* the kde-appmenu protocol: the wf_kde_appmenu_surface objects
                \* (resources), the view of each wl_surface (view_of), the
                \* string properties of the views (props), the number of
                \* "Could not get view" lines logged (log), and, as history,
                \* the last set_address request handled for each view (last)

vars == <<now, optInt, optDescr, heap, priv, tt, ret, fault, phase, born,
          restarts, codec, appmenu>>

\* The animation core's part of the state.
Tracker == <<now, optInt, optDescr, heap, priv, tt, ret, fault, phase, born, restarts>>

Trackers == {"A", "B"}

ImplIds == 1..3

NullPtr == "nullptr"

LengthOption == "option_t<int>"

DescrOption == "option_t<animation_description_t>"

\* An empty std::function.
EmptyFunction == "empty"

\* The result of a call that throws std::bad_function_call (calling an empty
\* std::function) instead of returning a double: no number, denominator 0.
BadCall == <<0, 0>>

BadFunctionCall == "std::bad_function_call"

NoFault == "none"

DurValues == 0..MaxDur

\* What the configuration may hold as a duration: any int, negative too.
ConfigValues == (0 - 1)..MaxDur

Vals == 0..MaxVal

\* The clock reads far more than any duration after the epoch.
ClockStart == MaxDur + 2

\* A default-constructed time_point: the clock's epoch.
Epoch == 0

(***************************************************************************)
(* duration_t::impl                                                        *)
(*                                                                         *)
(* The operators below read the program through a record w of the clock,   *)
(* the two option values, the heap and the transition, so that they apply  *)
(* to the state before a step (Cur) and to the state after it (Nxt).       *)
(***************************************************************************)
Cur == [now |-> now, optInt |-> optInt, optDescr |-> optDescr,
        heap |-> heap, tt |-> tt]

Nxt == [now |-> now', optInt |-> optInt', optDescr |-> optDescr',
        heap |-> heap', tt |-> tt']

\* The member initialisers of class impl.
impl_default ==
    [start_point |-> Epoch, length |-> NullPtr, descr |-> NullPtr,
     smooth_function |-> EmptyFunction, is_running |-> FALSE, reverse |-> FALSE]

get_elapsed(w, p) == w.now - w.heap[p].start_point

\* get_duration() without the floor of 1 ms.
get_duration_unclamped(w, p) ==
    IF w.heap[p].descr # NullPtr THEN w.optDescr.length_ms
    ELSE IF w.heap[p].length # NullPtr THEN w.optInt
    ELSE 1

get_duration(w, p) ==
    IF w.heap[p].descr # NullPtr THEN Max(1, w.optDescr.length_ms)
    ELSE IF w.heap[p].length # NullPtr THEN Max(1, w.optInt)
    ELSE 1

is_ready(w, p) == get_elapsed(w, p) >= get_duration(w, p)

\* get_progress_percentage() without the std::clamp.
get_progress_percentage_unclamped(w, p) ==
    IF (w.heap[p].length = NullPtr /\ w.heap[p].descr = NullPtr) \/ is_ready(w, p)
    THEN One
    ELSE LET fraction == Rat(get_elapsed(w, p), get_duration(w, p))
         IN  IF w.heap[p].reverse THEN RSub(One, fraction) ELSE fraction

get_progress_percentage(w, p) ==
    IF (w.heap[p].length = NullPtr /\ w.heap[p].descr = NullPtr) \/ is_ready(w, p)
    THEN One
    ELSE LET fraction == Rat(get_elapsed(w, p), get_duration(w, p))
         IN  Clamp01(IF w.heap[p].reverse THEN RSub(One, fraction) ELSE fraction)

\* progress() that eases the fraction of an elapsed tracker, too.
progress_unsnapped(w, p) ==
    IF w.heap[p].descr # NullPtr
    THEN Ease(w.optDescr.easing_name, get_progress_percentage(w, p))
    ELSE IF w.heap[p].smooth_function = EmptyFunction THEN BadCall
         ELSE Ease(w.heap[p].smooth_function, get_progress_percentage(w, p))

\* impl::progress(): a double, or BadCall when the call throws.
progress(w, p) ==
    IF is_ready(w, p) THEN (IF w.heap[p].reverse THEN Zero ELSE One)
    ELSE IF w.heap[p].descr # NullPtr
         THEN Ease(w.optDescr.easing_name, get_progress_percentage(w, p))
         ELSE IF w.heap[p].smooth_function = EmptyFunction THEN BadCall
              ELSE Ease(w.heap[p].smooth_function, get_progress_percentage(w, p))

(***************************************************************************)
(* timed_transition_t                                                      *)
(***************************************************************************)
\* (1 - alpha) * start + alpha * end
Lerp(alpha, s, e) == RAdd(RMul(RSub(One, alpha), s), RMul(alpha, e))

\* operator double(): the interpolated value, or BadCall.
value(w) ==
    LET alpha == progress(w, w.tt.duration)
    IN  IF alpha = BadCall THEN BadCall ELSE Lerp(alpha, w.tt.start, w.tt.end)

(***************************************************************************)
(* The kde-appmenu protocol (plugins/protocols/kde-appmenu.cpp).  A        *)
(* wf_kde_appmenu_surface is named by the wl_surface it was created for;   *)
(* a const char* is a null pointer or a sequence of characters; the        *)
(* properties of a view are a set of <<name, value>> pairs.                *)
(***************************************************************************)
Surfaces == {"surface1", "surface2", "surface3"}

Views == {"view1", "view2"}

NullStr == [null |-> TRUE, chars |-> <<>>]

CStr(chars) == [null |-> FALSE, chars |-> chars]

\* The arguments a client sends: null, "", and two names.
AddressArgs == {NullStr, CStr(<<>>), CStr(<<"a">>), CStr(<<"b">>)}

ServiceName == "kde-appmenu-service-name"

ObjectPath == "kde-appmenu-object-path"

\* No appmenu object exists; two surfaces have views, one has none; each
\* view has a property of some other plugin.
AppmenuInit ==
    [resources |-> {},
     view_of   |-> [f \in Surfaces |->
                      CASE f = "surface1" -> "view1"
                        [] f = "surface2" -> "view2"
                        [] OTHER -> NullPtr],
     props     |-> [v \in Views |-> {<<"title", <<"t">>>>}],
     last      |-> [v \in Views |-> {}],
     log       |-> 0]

\* wf::wl_surface_to_wayfire_view(surface)
wl_surface_to_wayfire_view(surface) == appmenu.view_of[surface]

\* view->erase_property(name)
erase_property(properties, name) == {q \in properties : q[1] # name}

\* view->set_property<std::string>(name, value)
set_property(properties, name, string) ==
    erase_property(properties, name) \cup {<<name, string>>}

\* The values view holds under name: none or one.
get_property(view, name) == {q[2] : q \in {r \in appmenu.props[view] : r[1] = name}}

\* The if/else of the handler for one of the two properties.
SetOrErase(properties, name, arg) ==
    IF ~arg.null /\ arg.chars # <<>>
    THEN set_property(properties, name, arg.chars)
    ELSE erase_property(properties, name)

\* The handler without the two erase_property branches.
handle_kde_appmenu_set_address_keeps(surface, service_name, object_path) ==
    /\ fault = NoFault
    /\ surface \in appmenu.resources
    /\ LET view == wl_surface_to_wayfire_view(surface)
           keep(properties, name, arg) ==
               IF ~arg.null /\ arg.chars # <<>>
               THEN set_property(properties, name, arg.chars)
               ELSE properties
       IN  IF view = NullPtr
           THEN /\ appmenu.log < MaxLog
                /\ appmenu' = [appmenu EXCEPT !.log = @ + 1]
           ELSE appmenu' = [appmenu EXCEPT
                   !.props[view] =
                       keep(keep(@, ServiceName, service_name),
                            ObjectPath, object_path),
                   !.last[view] = {[service_name |-> service_name,
                                    object_path |-> object_path]}]
    /\ UNCHANGED <<Tracker, codec>>

handle_kde_appmenu_set_address(surface, service_name, object_path) ==
    /\ fault = NoFault
    /\ surface \in appmenu.resources
    /\ LET view == wl_surface_to_wayfire_view(surface)
       IN  IF view = NullPtr
           THEN /\ appmenu.log < MaxLog
                /\ appmenu' = [appmenu EXCEPT !.log = @ + 1]
           ELSE appmenu' = [appmenu EXCEPT
                   !.props[view] =
                       SetOrErase(SetOrErase(@, ServiceName, service_name),
                                  ObjectPath, object_path),
                   !.last[view] = {[service_name |-> service_name,
                                    object_path |-> object_path]}]
    /\ UNCHANGED <<Tracker, codec>>

\* One appmenu object per surface at a time.
handle_kde_appmenu_manager_create(surface) ==
    /\ fault = NoFault
    /\ surface \notin appmenu.resources
    /\ appmenu' = [appmenu EXCEPT !.resources = @ \cup {surface}]
    /\ UNCHANGED <<Tracker, codec>>

handle_kde_appmenu_destroy(surface) ==
    /\ fault = NoFault
    /\ surface \in appmenu.resources
    /\ appmenu' = [appmenu EXCEPT !.resources = @ \ {surface}]
    /\ UNCHANGED <<Tracker, codec>>

\* The view of a surface goes away; the surface maps to no view from then on.
view_unmapped(surface) ==
    /\ fault = NoFault
    /\ appmenu.view_of[surface] # NullPtr
    /\ appmenu' = [appmenu EXCEPT !.view_of[surface] = NullPtr]
    /\ UNCHANGED <<Tracker, codec>>

(***************************************************************************)
(* Initial states: A is constructed by one of simple_animation_t's two     *)
(* constructors, B is not constructed yet.                                 *)
(***************************************************************************)
\* duration_t(length, smooth) that does not store the option.
duration_t_int_unbound(length, smooth) ==
    [impl_default EXCEPT !.smooth_function = smooth]

\* duration_t(length, smooth)
duration_t_int(length, smooth) ==
    [impl_default EXCEPT !.length = length, !.smooth_function = smooth]

\* duration_t(length), length a description option
duration_t_descr(length) == [impl_default EXCEPT !.descr = length]

\* The duration source impl r is bound to.
SourceOf(r) ==
    IF r.descr # NullPtr THEN DescrOption
    ELSE IF r.length # NullPtr THEN LengthOption
    ELSE NullPtr

Born(by, source) == [by |-> by, source |-> source]

DescrValues == [length_ms : DurValues, easing_name : easing_map]

InitWith(implA) ==
    /\ now = ClockStart
    /\ heap = (1 :> implA)
    /\ priv = [t \in Trackers |-> IF t = "A" THEN 1 ELSE 0]
    /\ tt = [duration |-> 1, start |-> Zero, end |-> Zero]
    /\ ret = "none"
    /\ fault = NoFault
    /\ phase = "idle"
    /\ born = [t \in Trackers |->
                 IF t = "A" THEN Born("constructor", SourceOf(implA))
                 ELSE Born("unborn", NullPtr)]
    /\ restarts = 0
    /\ appmenu = AppmenuInit

\* A is simple_animation_t(length, smooth) or simple_animation_t(length), the
\* option holding a duration of DurValues and an easing of easings.
InitOver(easings) ==
    \/ /\ optInt \in DurValues
       /\ optDescr = [length_ms |-> MaxDur, easing_name |-> "linear"]
       /\ \E smooth \in easings : InitWith(duration_t_int(LengthOption, smooth))
    \/ /\ optInt = MaxDur
       /\ optDescr \in [length_ms : DurValues, easing_name : easings]
       /\ InitWith(duration_t_descr(DescrOption))

\* The codec's caller holds nothing.
CodecIdle ==
    [stage |-> "idle", input |-> <<>>, text |-> <<>>, a |-> Nullopt,
     b |-> Nullopt, eq |-> "none", eq_swapped |-> "none"]

InitTiming == InitOver(easing_map) /\ codec = CodecIdle

(***************************************************************************)
(* duration_t                                                              *)
(***************************************************************************)
Alive(t) == fault = NoFault /\ priv[t] # 0

\* A bool handed back to the caller.
Returned(b) == IF b THEN "true" ELSE "false"

SetImpl(p, r) == heap' = [heap EXCEPT ![p] = r]

\* start() that moves start_point but does not set is_running.
start_keeps_flag(t) ==
    /\ Alive(t)
    /\ SetImpl(priv[t], [heap[priv[t]] EXCEPT !.start_point = now])
    /\ phase' = IF t = "A" THEN "armed" ELSE phase
    /\ UNCHANGED <<now, optInt, optDescr, priv, tt, ret, fault, born, restarts, codec, appmenu>>

start(t) ==
    /\ Alive(t)
    /\ SetImpl(priv[t], [heap[priv[t]] EXCEPT !.is_running = TRUE,
                                             !.start_point = now])
    /\ phase' = IF t = "A" THEN "armed" ELSE phase
    /\ UNCHANGED <<now, optInt, optDescr, priv, tt, ret, fault, born, restarts, codec, appmenu>>

\* running() that resets is_running before the tracker has elapsed, too.
running_consumes_early(t) ==
    /\ Alive(t)
    /\ ret' = Returned(~is_ready(Cur, priv[t]) \/ heap[priv[t]].is_running)
    /\ SetImpl(priv[t], [heap[priv[t]] EXCEPT !.is_running = FALSE])
    /\ phase' = IF t = "A" /\ phase = "armed" /\ is_ready(Cur, priv[t])
                THEN "done" ELSE phase
    /\ UNCHANGED <<now, optInt, optDescr, priv, tt, fault, born, restarts, codec, appmenu>>

\* running() that reads is_running and does not clear it.
running_keeps_flag(t) ==
    /\ Alive(t)
    /\ IF is_ready(Cur, priv[t])
       THEN /\ ret' = Returned(heap[priv[t]].is_running)
            /\ phase' = IF t = "A" /\ phase = "armed" THEN "done" ELSE phase
            /\ UNCHANGED heap
       ELSE /\ ret' = Returned(TRUE)
            /\ UNCHANGED <<heap, phase>>
    /\ UNCHANGED <<now, optInt, optDescr, priv, tt, fault, born, restarts, codec, appmenu>>

running(t) ==
    /\ Alive(t)
    /\ IF is_ready(Cur, priv[t])
       THEN /\ ret' = Returned(heap[priv[t]].is_running)
            /\ SetImpl(priv[t], [heap[priv[t]] EXCEPT !.is_running = FALSE])
            /\ phase' = IF t = "A" /\ phase = "armed" THEN "done" ELSE phase
       ELSE /\ ret' = Returned(TRUE)
            /\ UNCHANGED <<heap, phase>>
    /\ UNCHANGED <<now, optInt, optDescr, priv, tt, fault, born, restarts, codec, appmenu>>

\* reverse() that rewinds by the elapsed instead of the remaining time.
reverse_by_elapsed(t) ==
    /\ Alive(t)
    /\ LET total_duration == get_duration(Cur, priv[t])
           elapsed   == Min(get_elapsed(Cur, priv[t]), total_duration)
       IN  SetImpl(priv[t], [heap[priv[t]] EXCEPT
                               !.start_point = now - elapsed,
                               !.reverse = ~heap[priv[t]].reverse])
    /\ UNCHANGED <<now, optInt, optDescr, priv, tt, ret, fault, phase, born, restarts, codec, appmenu>>

reverse(t) ==
    /\ Alive(t)
    /\ LET total_duration == get_duration(Cur, priv[t])
           elapsed   == Min(get_elapsed(Cur, priv[t]), total_duration)
           remaining == total_duration - elapsed
       IN  SetImpl(priv[t], [heap[priv[t]] EXCEPT
                               !.start_point = now - remaining,
                               !.reverse = ~heap[priv[t]].reverse])
    /\ UNCHANGED <<now, optInt, optDescr, priv, tt, ret, fault, phase, born, restarts, codec, appmenu>>

(***************************************************************************)
(* timed_transition_t and simple_animation_t (object A)                    *)
(***************************************************************************)
\* The exception leaves the program; nothing else changes.
Throw ==
    /\ fault' = BadFunctionCall
    /\ UNCHANGED <<now, optInt, optDescr, heap, priv, tt, ret, phase, born, restarts, codec, appmenu>>

set(s, e) ==
    /\ Alive("A")
    /\ tt' = [tt EXCEPT !.start = RInt(s), !.end = RInt(e)]
    /\ restarts' = 0
    /\ UNCHANGED <<now, optInt, optDescr, heap, priv, ret, fault, phase, born, codec, appmenu>>

flip ==
    /\ Alive("A")
    /\ tt' = [tt EXCEPT !.start = tt.end, !.end = tt.start]
    /\ UNCHANGED <<now, optInt, optDescr, heap, priv, ret, fault, phase, born, restarts, codec, appmenu>>

\* A read of the transition: (double)*this
read ==
    /\ Alive("A")
    /\ IF value(Cur) = BadCall THEN Throw ELSE UNCHANGED vars

\* restart_with_end() that stores the new end before it reads the value.
restart_with_end_first(new_end) ==
    /\ Alive("A")
    /\ restarts < MaxRestart
    /\ IF value(Cur) = BadCall THEN Throw
       ELSE /\ tt' = [tt EXCEPT
                       !.start = Lerp(progress(Cur, tt.duration), tt.start, RInt(new_end)),
                       !.end = RInt(new_end)]
            /\ restarts' = restarts + 1
            /\ UNCHANGED <<now, optInt, optDescr, heap, priv, ret, fault, phase, born, codec, appmenu>>

restart_with_end(new_end) ==
    /\ Alive("A")
    /\ restarts < MaxRestart
    /\ IF value(Cur) = BadCall THEN Throw
       ELSE /\ tt' = [tt EXCEPT !.start = value(Cur), !.end = RInt(new_end)]
            /\ restarts' = restarts + 1
            /\ UNCHANGED <<now, optInt, optDescr, heap, priv, ret, fault, phase, born, codec, appmenu>>

restart_same_end ==
    /\ Alive("A")
    /\ restarts < MaxRestart
    /\ IF value(Cur) = BadCall THEN Throw
       ELSE /\ tt' = [tt EXCEPT !.start = value(Cur)]
            /\ restarts' = restarts + 1
            /\ UNCHANGED <<now, optInt, optDescr, heap, priv, ret, fault, phase, born, codec, appmenu>>

\* duration_t::start() as the second half of animate(): on A's impl.
StartedImpl == [heap EXCEPT ![priv["A"]] =
                  [@ EXCEPT !.is_running = TRUE, !.start_point = now]]

\* animate(start, end)
animate_set(s, e) ==
    /\ Alive("A")
    /\ tt' = [tt EXCEPT !.start = RInt(s), !.end = RInt(e)]
    /\ heap' = StartedImpl
    /\ phase' = "armed"
    /\ restarts' = 0
    /\ UNCHANGED <<now, optInt, optDescr, priv, ret, fault, born, codec, appmenu>>

\* animate(end)
animate_end(e) ==
    /\ Alive("A")
    /\ restarts < MaxRestart
    /\ IF value(Cur) = BadCall THEN Throw
       ELSE /\ tt' = [tt EXCEPT !.start = value(Cur), !.end = RInt(e)]
            /\ heap' = StartedImpl
            /\ phase' = "armed"
            /\ restarts' = restarts + 1
            /\ UNCHANGED <<now, optInt, optDescr, priv, ret, fault, born, codec, appmenu>>

\* animate()
animate ==
    /\ Alive("A")
    /\ restarts < MaxRestart
    /\ IF value(Cur) = BadCall THEN Throw
       ELSE /\ tt' = [tt EXCEPT !.start = value(Cur)]
            /\ heap' = StartedImpl
            /\ phase' = "armed"
            /\ restarts' = restarts + 1
            /\ UNCHANGED <<now, optInt, optDescr, priv, ret, fault, born, codec, appmenu>>

(***************************************************************************)
(* The environment: the clock and the configuration.                       *)
(***************************************************************************)
Tick ==
    /\ fault = NoFault
    /\ now < ClockStart + MaxTime
    /\ now' = now + 1
    /\ UNCHANGED <<optInt, optDescr, heap, priv, tt, ret, fault, phase, born, restarts, codec, appmenu>>

\* system_clock is not monotonic: it is set back by an adjustment of the time.
clock_set_back ==
    /\ fault = NoFault
    /\ now > ClockStart - MaxBack
    /\ now' = now - 1
    /\ UNCHANGED <<optInt, optDescr, heap, priv, tt, ret, fault, phase, born, restarts, codec, appmenu>>

(***************************************************************************)
(* One tracker, fixed configuration: the duration_t interface of A.        *)
(***************************************************************************)
NextTiming ==
    \/ Tick
    \/ start("A")
    \/ running("A")
    \/ reverse("A")

SpecTiming == InitTiming /\ [][NextTiming]_vars

(***************************************************************************)
(* A tracker and the transition bound to it, the transition set to whole   *)
(* values: what reverse_direction() does to the value.                     *)
(***************************************************************************)
NextReverse ==
    \/ Tick
    \/ start("A")
    \/ reverse("A")
    \/ \E s, e \in Vals : set(s, e)

SpecReverse == InitTiming /\ [][NextReverse]_vars

(***************************************************************************)
(* The same with the two restarts of the transition.                       *)
(***************************************************************************)
NextRestart ==
    \/ Tick
    \/ start("A")
    \/ reverse("A")
    \/ \E s, e \in Vals : set(s, e)
    \/ \E e \in Vals : restart_with_end(e)
    \/ restart_same_end

SpecRestart == InitTiming /\ [][NextRestart]_vars

(***************************************************************************)
(* One simple animation, fixed configuration: everything that moves the    *)
(* interpolated value.  running() is left out: it reads and writes only    *)
(* is_running, which nothing here reads.                                   *)
(***************************************************************************)
NextAnim ==
    \/ Tick
    \/ start("A")
    \/ reverse("A")
    \/ \E s, e \in Vals : set(s, e)
    \/ flip
    \/ \E e \in Vals : restart_with_end(e)
    \/ restart_same_end
    \/ \E s, e \in Vals : animate_set(s, e)
    \/ \E e \in Vals : animate_end(e)
    \/ animate

SpecAnim == InitTiming /\ [][NextAnim]_vars

(***************************************************************************)
(* Construction of B, copies and assignments, configuration changes.       *)
(***************************************************************************)
\* The impl objects some shared_ptr other than t's priv refers to.
HeldBesides(t) == {priv[o] : o \in Trackers \ {t}} \cup {tt.duration}

\* std::make_shared<impl>(): the id of the new object.  Ids are names only;
\* the id of an object only t refers to is free again once t lets go of it.
NewImpl(t) ==
    CHOOSE i \in ImplIds \ HeldBesides(t) :
        \A j \in ImplIds \ HeldBesides(t) : i <= j

\* this->priv = std::make_shared<impl>(r)
MakeShared(t, r) ==
    LET i    == NewImpl(t)
        live == (HeldBesides(t) \ {0}) \cup {i}
    IN  /\ priv' = [priv EXCEPT ![t] = i]
        /\ heap' = [j \in live |-> IF j = i THEN r ELSE heap[j]]

\* duration_t(length, smooth) for B
construct_int(smooth) ==
    /\ fault = NoFault
    /\ priv["B"] = 0
    /\ MakeShared("B", duration_t_int(LengthOption, smooth))
    /\ born' = [born EXCEPT !["B"] = Born("constructor", LengthOption)]
    /\ UNCHANGED <<now, optInt, optDescr, tt, ret, fault, phase, restarts, codec, appmenu>>

\* duration_t(length) for B
construct_descr ==
    /\ fault = NoFault
    /\ priv["B"] = 0
    /\ MakeShared("B", duration_t_descr(DescrOption))
    /\ born' = [born EXCEPT !["B"] = Born("constructor", DescrOption)]
    /\ UNCHANGED <<now, optInt, optDescr, tt, ret, fault, phase, restarts, codec, appmenu>>

\* A copy constructor that copies the shared_ptr, not the impl.
copy_construct_shares(other) ==
    /\ Alive(other)
    /\ priv["B"] = 0
    /\ priv' = [priv EXCEPT !["B"] = priv[other]]
    /\ born' = [born EXCEPT !["B"] = Born("copy", SourceOf(heap[priv[other]]))]
    /\ UNCHANGED <<now, optInt, optDescr, heap, tt, ret, fault, phase, restarts, codec, appmenu>>

\* duration_t(const duration_t& other) for B
copy_construct(other) ==
    /\ Alive(other)
    /\ priv["B"] = 0
    /\ MakeShared("B", heap[priv[other]])
    /\ born' = [born EXCEPT !["B"] = Born("copy", SourceOf(heap[priv[other]]))]
    /\ UNCHANGED <<now, optInt, optDescr, tt, ret, fault, phase, restarts, codec, appmenu>>

\* operator=(const duration_t& other)
assign(t, other) ==
    /\ Alive(t)
    /\ Alive(other)
    /\ IF other # t
       THEN /\ MakeShared(t, heap[priv[other]])
            /\ born' = [born EXCEPT ![t].by = "assignment"]
       ELSE UNCHANGED <<heap, priv, born>>
    /\ UNCHANGED <<now, optInt, optDescr, tt, ret, fault, phase, restarts, codec, appmenu>>

\* The configuration subsystem sets the integer option.
set_length_option(v) ==
    /\ fault = NoFault
    /\ optInt' = v
    /\ UNCHANGED <<now, optDescr, heap, priv, tt, ret, fault, phase, born, restarts, codec, appmenu>>

\* The configuration subsystem sets the description option.
set_descr_option(d) ==
    /\ fault = NoFault
    /\ optDescr' = d
    /\ UNCHANGED <<now, optInt, heap, priv, tt, ret, fault, phase, born, restarts, codec, appmenu>>

(***************************************************************************)
(* Two trackers: B is constructed, copied from A and assigned to, and the  *)
(* integer option changes.  The easing plays no part: it is linear.        *)
(***************************************************************************)
InitTrackers == InitOver({"linear"}) /\ codec = CodecIdle

NextTrackers ==
    \/ Tick
    \/ \E t \in Trackers : start(t)
    \/ \E t \in Trackers : running(t)
    \/ \E t \in Trackers : reverse(t)
    \/ construct_int("linear")
    \/ construct_descr
    \/ copy_construct("A")
    \/ \E other \in Trackers : assign("B", other)
    \/ \E v \in DurValues : set_length_option(v)

SpecTrackers == InitTrackers /\ [][NextTrackers]_vars

(***************************************************************************)
(* A tracker and its copy: B is copy-constructed from A or assigned from   *)
(* it, both are used, and the integer option changes.                      *)
(***************************************************************************)
NextCopy ==
    \/ Tick
    \/ \E t \in Trackers : start(t)
    \/ \E t \in Trackers : running(t)
    \/ \E t \in Trackers : reverse(t)
    \/ copy_construct("A")
    \/ assign("B", "A")
    \/ \E v \in DurValues : set_length_option(v)

SpecCopy == InitTrackers /\ [][NextCopy]_vars

(***************************************************************************)
(* Assignment to the tracker a transition is bound to.                     *)
(***************************************************************************)
NextRebind ==
    \/ Tick
    \/ \E t \in Trackers : start(t)
    \/ construct_int("linear")
    \/ \E t, other \in Trackers : assign(t, other)
    \/ \E s, e \in Vals : set(s, e)

SpecRebind == InitTrackers /\ [][NextRebind]_vars

(***************************************************************************)
(* A tracker and its transition under a clock that moves both ways and a   *)
(* configuration that changes, to any int, while the animation runs: the   *)
(* option that changes is the one the tracker is bound to.                 *)
(***************************************************************************)
NextClock ==
    \/ Tick
    \/ clock_set_back
    \/ start("A")
    \/ reverse("A")
    \/ \E s, e \in Vals : set(s, e)
    \/ \E v \in ConfigValues :
          SourceOf(heap[priv["A"]]) = LengthOption /\ set_length_option(v)
    \/ \E d \in [length_ms : ConfigValues, easing_name : easing_map] :
          SourceOf(heap[priv["A"]]) = DescrOption /\ set_descr_option(d)

SpecClock == InitTiming /\ [][NextClock]_vars

(***************************************************************************)
(* One animation from its start to its end: the tracker is started once,   *)
(* after any number of reverse_direction() calls, and polled; the clock    *)
(* keeps advancing, at least until the tracker has elapsed.                *)
(***************************************************************************)
\* The clock advances: as Tick, and in any case until the animation that
\* was started has elapsed.
Advance ==
    /\ fault = NoFault
    /\ \/ now < ClockStart + MaxTime
       \/ phase = "armed" /\ ~is_ready(Cur, priv["A"])
    /\ now' = now + 1
    /\ UNCHANGED <<optInt, optDescr, heap, priv, tt, ret, fault, phase, born, restarts, codec, appmenu>>

NextFinish ==
    \/ Advance
    \/ phase = "idle" /\ reverse("A")
    \/ phase = "idle" /\ start("A")
    \/ running("A")

\* The clock keeps advancing and running() is polled again and again.
SpecFinish ==
    /\ InitTiming
    /\ [][NextFinish]_vars
    /\ WF_vars(Advance)
    /\ WF_vars(running("A"))

(***************************************************************************)
(* Misuse: A is constructed with a null option, by either constructor.     *)
(***************************************************************************)
InitMisuse ==
    /\ optInt = MaxDur
    /\ optDescr = [length_ms |-> MaxDur, easing_name |-> "linear"]
    /\ \/ \E smooth \in easing_map : InitWith(duration_t_int(NullPtr, smooth))
       \/ InitWith(duration_t_descr(NullPtr))
    /\ codec = CodecIdle

NextMisuse ==
    \/ NextTiming
    \/ NextAnim
    \/ read

SpecMisuse == InitMisuse /\ [][NextMisuse]_vars

(***************************************************************************)
(* The description codec and description equality, as the configuration    *)
(* subsystem uses them: a text is parsed, the description written back and *)
(* parsed again, and descriptions are compared.                            *)
(***************************************************************************)
RECURSIVE Words(_)
Words(ws) ==
    IF Len(ws) = 1 THEN ws[1] ELSE ws[1] \o <<" ">> \o Words(Tail(ws))

\* Durations: a number and its unit.  The numbers stay below 2^31 / Ulp, in
\* ms too.
DurationTexts ==
    {<<n, u>> : n \in {<<"0">>, <<"0", ".", "1", "5">>, <<"0", ".", "0", "0", "2">>},
                u \in {"s", "ms"}}
      \cup {<<n, "ms">> : n \in {<<"2">>, <<"1", "5", "0">>, <<"1", ".", "5">>,
                                 <<"-", "3">>}}

CoordTexts ==
    [short  |-> <<"0", ".", "1">>,
     third  |-> <<"0", ".", "1", "0", "1">>,
     long   |-> <<"0", ".", "1", "2", "3", "4", "5", "6", "7">>,
     second |-> <<"0", ".", "2">>,
     one    |-> <<"1">>]

BezierTexts ==
    {Words(<<Text("cubic-bezier"), x1, CoordTexts.second, x2, y2>>) :
        x1 \in {CoordTexts.short, CoordTexts.third, CoordTexts.long},
        x2 \in {CoordTexts.short, CoordTexts.one},
        y2 \in {CoordTexts.short, CoordTexts.one}}

EasingTexts ==
    {<<>>, Text("cubic-bezier"), <<"b", "o", "g", "u", "s">>,
     Words(<<Text("linear"), <<"e", "x", "t", "r", "a">>>>),
     Words(<<Text("cubic-bezier"), CoordTexts.short, CoordTexts.second>>),
     Words(<<Text("cubic-bezier"), CoordTexts.short, CoordTexts.second,
             <<"z", "z">>>>),
     Words(<<Text("cubic-bezier"), CoordTexts.short, CoordTexts.second,
             CoordTexts.short, CoordTexts.one, <<"z", "z">>>>)}
      \cup {Text(n) : n \in easing_map}
      \cup BezierTexts

\* The texts handed to the parser.
ParseInputs ==
    {<<"5", "0">>, <<"a", "b", "c">>, <<"5", " ", "x">>}
      \cup {d[1] \o sep \o Text(d[2]) \o (IF e = <<>> THEN <<>> ELSE <<" ">> \o e) :
               d \in DurationTexts, sep \in {<<>>, <<" ">>}, e \in EasingTexts}

\* The descriptions handed to operator==: parsed ones, and one written out
\* by hand whose cubic-bezier name has no coordinates.
PairInputs ==
    {from_string(Words(<<n, Text("ms"), e>>)) :
        n \in {<<"0">>, <<"2">>},
        e \in {Text("linear"), Text("circle")} \cup
              {Words(<<Text("cubic-bezier"), x1, CoordTexts.second,
                       CoordTexts.short, y2>>) :
                  x1 \in {CoordTexts.short, CoordTexts.third},
                  y2 \in {CoordTexts.short, CoordTexts.one}}}
      \cup {Description(2, <<"cubic-bezier", 0, 0, Ulp, Ulp>>, Text("cubic-bezier"))}

\* What an uninitialised double may hold.
Garbage == {0, Ulp}

CodecInputs ==
    {[CodecIdle EXCEPT !.stage = "text", !.input = t, !.text = t] :
        t \in ParseInputs}
      \cup {[CodecIdle EXCEPT !.stage = "pair", !.a = a, !.b = b] :
               a \in PairInputs, b \in PairInputs}

InitCodec ==
    /\ optInt = MaxDur
    /\ optDescr = [length_ms |-> MaxDur, easing_name |-> "linear"]
    /\ InitWith(duration_t_descr(DescrOption))
    /\ codec \in CodecInputs

\* d = from_string(text)
parse ==
    /\ codec.stage = "text"
    /\ LET d == from_string(codec.text)
       IN  codec' = [codec EXCEPT !.a = d,
                                  !.stage = IF d.ok THEN "parsed" ELSE "rejected"]
    /\ UNCHANGED <<Tracker, appmenu>>

\* text = to_string(d)
serialize ==
    /\ codec.stage = "parsed"
    /\ codec' = [codec EXCEPT !.text = to_string(codec.a), !.stage = "serialized"]
    /\ UNCHANGED <<Tracker, appmenu>>

\* from_string(to_string(d))
reparse ==
    /\ codec.stage = "serialized"
    /\ codec' = [codec EXCEPT !.b = from_string(codec.text), !.stage = "reparsed"]
    /\ UNCHANGED <<Tracker, appmenu>>

\* a == b; an empty optional equals no description.
compare ==
    /\ codec.stage \in {"reparsed", "pair"}
    /\ \E garbage \in Garbage \X Garbage :
          codec' = [codec EXCEPT
                      !.eq = Returned(codec.b.ok
                                        /\ operator_eq(codec.a, codec.b, garbage)),
                      !.stage = IF codec.stage = "pair" THEN "pair compared"
                                ELSE "round trip compared"]
    /\ UNCHANGED <<Tracker, appmenu>>

\* b == a, after a == b
compare_swapped ==
    /\ codec.stage = "pair compared"
    /\ \E garbage \in Garbage \X Garbage :
          codec' = [codec EXCEPT
                      !.eq_swapped = Returned(operator_eq(codec.b, codec.a, garbage)),
                      !.stage = "pair compared both ways"]
    /\ UNCHANGED <<Tracker, appmenu>>

NextCodec ==
    \/ parse
    \/ serialize
    \/ reparse
    \/ compare
    \/ compare_swapped

SpecCodec == InitCodec /\ [][NextCodec]_vars

(***************************************************************************)
(* The kde-appmenu protocol: clients create and destroy appmenu objects    *)
(* and send set_address requests; views go away.                           *)
(***************************************************************************)
InitAppmenu ==
    /\ optInt = MaxDur
    /\ optDescr = [length_ms |-> MaxDur, easing_name |-> "linear"]
    /\ InitWith(duration_t_descr(DescrOption))
    /\ codec = CodecIdle

NextAppmenu ==
    \/ \E surface \in Surfaces : handle_kde_appmenu_manager_create(surface)
    \/ \E surface \in Surfaces : handle_kde_appmenu_destroy(surface)
    \/ \E surface \in Surfaces : view_unmapped(surface)
    \/ \E surface \in Surfaces, service_name, object_path \in AddressArgs :
          handle_kde_appmenu_set_address(surface, service_name, object_path)

SpecAppmenu == InitAppmenu /\ [][NextAppmenu]_vars

(***************************************************************************)
(* The whole program.                                                      *)
(***************************************************************************)
Next ==
    \/ NextTiming
    \/ NextReverse
    \/ NextRestart
    \/ NextAnim
    \/ NextCopy
    \/ NextTrackers
    \/ NextRebind
    \/ \E smooth \in easing_map : construct_int(smooth)
    \/ \E other \in Trackers : copy_construct(other)
    \/ \E d \in DescrValues : set_descr_option(d)
    \/ read
    \/ NextClock
    \/ NextFinish
    \/ NextCodec
    \/ NextAppmenu

Init == InitOver(easing_map) /\ codec \in CodecInputs \cup {CodecIdle}

Spec == Init /\ [][Next]_vars

(***************************************************************************)
(* Properties.                                                             *)
(***************************************************************************)
\* The easing tracker t applies.
EasingOf(t) ==
    IF heap[priv[t]].descr # NullPtr THEN optDescr.easing_name
    ELSE heap[priv[t]].smooth_function

\* C1 (as amended): running() returns true on every call made while the
\* tracker is not elapsed; a call made while it is elapsed returns true
\* exactly when start() has been called since the last call made while
\* elapsed, and false otherwise.
C1_RunningLatch ==
    [][running("A") =>
         ret' = Returned(~is_ready(Cur, priv["A"]) \/ phase = "armed")]_vars

\* C1's case: the end has been reported once, and the next call returns false.
C1_Witness ==
    /\ phase = "done"
    /\ ret = "false"
    /\ is_ready(Cur, priv["A"])
    /\ ~heap[priv["A"]].reverse

\* C1 (as stated): true while not elapsed, true on the first call after the
\* tracker became elapsed, false on every later call until start().
C1_Original ==
    [][running("A") =>
         /\ ~is_ready(Cur, priv["A"]) => ret' = "true"
         /\ phase = "armed" => ret' = "true"
         /\ phase = "done" => ret' = "false"]_vars

\* An easing that meets the resting values of progress(): 0 at 0 and 1 at 1.
EndpointExact(name) == Ease(name, Zero) = Zero /\ Ease(name, One) = One

\* A's tracker is in flight, strictly between its two ends.
InFlight == ~is_ready(Cur, priv["A"]) /\ get_elapsed(Cur, priv["A"]) > 0

\* C2 (as amended): reverse_direction() toggles the reverse flag and sets the
\* elapsed time to total_duration - min(old elapsed, total_duration); for a
\* tracker with a bound source whose easing has easing(0) = 0 and
\* easing(1) = 1 the interpolated value is the same right after the call as
\* right before it.
C2_ReverseContinuity ==
    [][reverse("A") =>
         /\ heap'[priv["A"]].reverse = ~heap[priv["A"]].reverse
         /\ get_elapsed(Nxt, priv["A"]) =
                get_duration(Cur, priv["A"])
                  - Min(get_elapsed(Cur, priv["A"]), get_duration(Cur, priv["A"]))
         /\ EndpointExact(EasingOf("A")) => value(Nxt) = value(Cur)]_vars

\* C2's case: reversed in flight, between two different endpoints.
C2_Witness ==
    /\ heap[priv["A"]].reverse
    /\ InFlight
    /\ tt.start # tt.end
    /\ EndpointExact(EasingOf("A"))
    /\ EasingOf("A") # "linear"

\* C2 (as stated): the value is unchanged by reverse_direction() whatever the
\* easing.
C2_Original == [][reverse("A") => value(Nxt) = value(Cur)]_vars

\* C3 (as stated): with an easing that has easing(0) = 0, animate(end) and
\* animate() leave the interpolated value where it was.
C3_AnimateNoJump ==
    [][(((\E e \in Vals : animate_end(e)) \/ animate)
          /\ Ease(EasingOf("A"), Zero) = Zero) => value(Nxt) = value(Cur)]_vars

\* C4 (a step that counts a restart is one of the two restarts):
\* restart_with_end(end2) stores the value read before the call as start
\* and end2 as end, restart_same_end() stores that value as start and keeps
\* end; neither touches the tracker.
C4_RestartCaptures ==
    [][restarts' = restarts + 1 =>
         /\ \A e \in Vals :
              restart_with_end(e) =>
                  /\ tt' = [duration |-> tt.duration, start |-> value(Cur),
                            end |-> RInt(e)]
                  /\ heap' = heap /\ priv' = priv
         /\ restart_same_end =>
                  /\ tt' = [duration |-> tt.duration, start |-> value(Cur),
                            end |-> tt.end]
                  /\ heap' = heap /\ priv' = priv]_vars

\* C4's case: a value captured in flight is the new start.
C4_Witness ==
    /\ restarts = 1
    /\ InFlight
    /\ tt.start[2] > 1
    /\ tt.start # tt.end

\* C5 (as stated): the transition of A reads the timing state of A's tracker:
\* its value is (1 - a) * start + a * end with a the tracker's progress().
C5_ObservesTracker ==
    fault = NoFault =>
        value(Cur) = Lerp(progress(Cur, priv["A"]), tt.start, tt.end)

\* The other tracker.
Other(t) == IF t = "A" THEN "B" ELSE "A"

\* The option's value sets total_duration() of every tracker bound to it.
SharedLength(w) ==
    \A t \in Trackers :
        (priv[t] # 0 /\ SourceOf(w.heap[priv[t]]) = LengthOption)
            => get_duration(w, priv[t]) = Max(1, w.optInt)

\* C6: a copy starts as an impl of its own that equals the original's;
\* afterwards start(), running() and reverse_direction() on one object leave
\* the other object's impl as it was; both keep reading the same option.
C6_CopyIsDeep ==
    [][/\ copy_construct("A") =>
            /\ heap'[priv'["B"]] = heap[priv["A"]]
            /\ priv'["B"] # priv'["A"]
       /\ \A other \in Trackers \ {"B"} :
            assign("B", other) =>
                /\ heap'[priv'["B"]] = heap[priv[other]]
                /\ priv'["B"] # priv'[other]
       /\ \A t \in Trackers :
            (priv[Other(t)] # 0 /\ now' = now
               /\ (start(t) \/ running(t) \/ reverse(t))) =>
                /\ priv'[Other(t)] = priv[Other(t)]
                /\ heap'[priv[Other(t)]] = heap[priv[Other(t)]]
       /\ SharedLength(Nxt)]_vars

\* C6's case: B is a copy of A, the two have diverged and read one option.
C6_Witness ==
    /\ born["B"].by = "copy"
    /\ SourceOf(heap[priv["B"]]) = LengthOption
    /\ heap[priv["A"]].start_point # heap[priv["B"]].start_point
    /\ heap[priv["A"]].reverse # heap[priv["B"]].reverse
    /\ heap[priv["A"]].is_running # heap[priv["B"]].is_running
    /\ optInt = 0

\* Exactly one of the two duration sources is bound in every tracker.
ExactlyOneSource ==
    \A t \in Trackers :
        priv[t] # 0 =>
            (heap[priv[t]].length # NullPtr) # (heap[priv[t]].descr # NullPtr)

\* C7 (as amended): a tracker constructed with a non-null option has exactly
\* one of the two duration sources bound in every reachable state; only a
\* copy-assignment changes which one, to the one bound in the tracker
\* assigned from.
C7_OneSource ==
    /\ []ExactlyOneSource
    /\ [][\A t \in Trackers :
            (priv[t] # 0 /\ SourceOf(heap'[priv'[t]]) # SourceOf(heap[priv[t]]))
                => \E other \in Trackers :
                      /\ assign(t, other)
                      /\ SourceOf(heap'[priv'[t]]) = SourceOf(heap[priv[other]])]_vars

\* C7's case: an assignment has replaced the source B's constructor bound.
C7_Witness ==
    /\ born["B"].by = "assignment"
    /\ SourceOf(heap[priv["B"]]) # born["B"].source
    /\ ExactlyOneSource

\* C7 (as stated): the source bound is the one bound at construction.
C7_Original ==
    \A t \in Trackers :
        priv[t] # 0 =>
            /\ (heap[priv[t]].length # NullPtr) # (heap[priv[t]].descr # NullPtr)
            /\ SourceOf(heap[priv[t]]) = born[t].source

\* C10 (as stated): with no duration source bound total_duration() is 1,
\* progress_fraction() is 1.0 and no operation raises.
C10_MisuseDegrades ==
    /\ get_duration(Cur, priv["A"]) = 1
    /\ get_progress_percentage(Cur, priv["A"]) = One
    /\ fault = NoFault

\* The four coordinates of a cubic-bezier name, or <<>> for another name.
BezierCoords(name) ==
    With(ExtractString(istringstream(name), <<>>), LAMBDA type :
    With(ExtractDouble(type.stream, 0), LAMBDA x1 :
    With(ExtractDouble(x1.stream, 0), LAMBDA y1 :
    With(ExtractDouble(y1.stream, 0), LAMBDA x2 :
    With(ExtractDouble(x2.stream, 0), LAMBDA y2 :
        IF type.val = Text("cubic-bezier") /\ ~y2.stream.fail
        THEN <<x1.val, y1.val, x2.val, y2.val>>
        ELSE <<>>)))))

\* The equality of descriptions as stated.
StatedEqual(a, b) ==
    /\ a.length_ms = b.length_ms
    /\ \/ a.easing_name = b.easing_name
       \/ /\ BezierCoords(a.easing_name) # <<>>
          /\ BezierCoords(b.easing_name) # <<>>
          /\ \A i \in 1..4 :
                epsilon_comparison(BezierCoords(a.easing_name)[i],
                                   BezierCoords(b.easing_name)[i])

\* C8 (as stated): a == b holds exactly when the durations are equal and the
\* names are textually equal or name cubic-bezier curves whose coordinates
\* are pairwise equal within the relative epsilon.
C8_Equality ==
    codec.stage = "pair compared" =>
        codec.eq = Returned(StatedEqual(codec.a, codec.b))

\* C9: a description produced by a successful parse is written as its
\* duration in ms, "ms", a space and its easing name; parsing that text
\* succeeds and gives a description equal to it.
C9_RoundTrip ==
    /\ codec.stage = "serialized" =>
          codec.text = (IF codec.a.length_ms < 0 THEN <<"-">> ELSE <<>>)
                         \o DecimalText(Abs(codec.a.length_ms))
                         \o Text("ms") \o <<" ">> \o codec.a.easing_name
    /\ codec.stage = "reparsed" => codec.b.ok
    /\ codec.stage = "round trip compared" => codec.eq = "true"

\* C9's case: a text in seconds with a cubic-bezier easing whose coordinate
\* has more decimals than the name keeps went round and compared equal.
C9_Witness ==
    /\ codec.stage = "round trip compared"
    /\ codec.eq = "true"
    /\ codec.a.length_ms = 150
    /\ Len(codec.input) > 4 /\ SubSeq(codec.input, 1, 5) = <<"0", ".", "1", "5", "s">>
    /\ codec.a.easing[1] = "cubic-bezier"
    /\ codec.a.easing[2] % 10 # 0
    /\ codec.text # codec.input

\* What the reads of a duration, a unit, an easing word and, after
\* cubic-bezier, up to four numbers leave of the text: the characters from
\* the first one that no read took.
Unconsumed(text) ==
    With(ExtractDouble(istringstream(text), 0), LAMBDA N :
    With(ExtractString(N.stream, <<>>), LAMBDA suffix :
    With(ExtractString(suffix.stream, <<>>), LAMBDA word :
    With(ExtractDouble(word.stream, 0), LAMBDA x1 :
    With(ExtractDouble(x1.stream, 0), LAMBDA y1 :
    With(ExtractDouble(y1.stream, 0), LAMBDA x2 :
    With(ExtractDouble(x2.stream, 0), LAMBDA y2 :
        SkipWs(IF word.val = Text("cubic-bezier") THEN y2.stream.buf
               ELSE word.stream.buf))))))))

\* C11 (as stated): a text whose duration, unit and easing parse, and that
\* has non-whitespace content left after them, is rejected: no parse
\* succeeds on a text with unconsumed content.
C11_TrailingRejected ==
    codec.stage = "parsed" => Unconsumed(codec.input) = <<>>

\* C12: whenever elapsed >= total_duration, progress() is exactly 1 on a
\* forward tracker and exactly 0 on a reversed one, whatever the easing, and
\* the value of the transition bound to it is exactly end, respectively
\* start; at elapsed = 0 on a forward tracker progress_fraction() is 0.
C12_RestingProgress ==
    /\ is_ready(Cur, priv["A"]) =>
          /\ progress(Cur, priv["A"]) =
                (IF heap[priv["A"]].reverse THEN Zero ELSE One)
          /\ value(Cur) = (IF heap[priv["A"]].reverse THEN tt.start ELSE tt.end)
    /\ (get_elapsed(Cur, priv["A"]) = 0 /\ ~heap[priv["A"]].reverse) =>
          get_progress_percentage(Cur, priv["A"]) = Zero

\* C12's case: a started, reversed tracker with the sigmoid easing has
\* elapsed, between two different endpoints.
C12_Witness ==
    /\ phase = "armed"
    /\ is_ready(Cur, priv["A"])
    /\ heap[priv["A"]].reverse
    /\ EasingOf("A") = "sigmoid"
    /\ tt.start # tt.end
    /\ value(Cur) = tt.start

\* total_duration() of tracker t is max(1, the value its source holds now).
FlooredDuration(w, t) ==
    /\ get_duration(w, priv[t]) >= 1
    /\ SourceOf(w.heap[priv[t]]) = DescrOption =>
          get_duration(w, priv[t]) = Max(1, w.optDescr.length_ms)
    /\ SourceOf(w.heap[priv[t]]) = LengthOption =>
          get_duration(w, priv[t]) = Max(1, w.optInt)

\* C13: total_duration() is at least 1 in every reachable state and equals
\* max(1, configured value) of the bound source as it is at the query, for
\* every configured value, 0 and negative ones too, and right after every
\* change of the option.
C13_DurationFloor ==
    /\ [](\A t \in Trackers : priv[t] # 0 => FlooredDuration(Cur, t))
    /\ [][optInt' # optInt \/ optDescr' # optDescr =>
            \A t \in Trackers : priv[t] # 0 => FlooredDuration(Nxt, t)]_vars

\* C13's case: the option was set to a negative value after start(), no time
\* has passed since, and the tracker is in flight with a duration of 1.
C13_Witness ==
    /\ phase = "armed"
    /\ get_elapsed(Cur, priv["A"]) = 0
    /\ ~is_ready(Cur, priv["A"])
    /\ \/ SourceOf(heap[priv["A"]]) = LengthOption /\ optInt < 0
       \/ SourceOf(heap[priv["A"]]) = DescrOption /\ optDescr.length_ms < 0
    /\ get_duration(Cur, priv["A"]) = 1

\* C14: progress_fraction() lies in [0, 1] in every reachable state, also
\* when the clock was set back and the elapsed time is negative; while the
\* tracker is not elapsed it is elapsed / total_duration (forward) or
\* 1 - elapsed / total_duration (reversed), clamped to [0, 1].
C14_FractionInRange ==
    LET f == get_progress_percentage(Cur, priv["A"])
        e == get_elapsed(Cur, priv["A"])
        D == Max(1, IF SourceOf(heap[priv["A"]]) = DescrOption
                    THEN optDescr.length_ms ELSE optInt)
    IN  /\ 0 <= f[1] /\ f[1] <= f[2]
        /\ e < D =>
              f = (IF heap[priv["A"]].reverse
                   THEN (IF e <= 0 THEN One ELSE Rat(D - e, D))
                   ELSE (IF e <= 0 THEN Zero ELSE Rat(e, D)))

\* C14's case: the clock was set back behind the start of a running tracker.
C14_Witness ==
    /\ phase = "armed"
    /\ get_elapsed(Cur, priv["A"]) < 0
    /\ ~heap[priv["A"]].reverse
    /\ get_progress_percentage(Cur, priv["A"]) = Zero

\* The program as it is after a step, read once the clock has advanced past
\* total_duration and nothing else has happened.
Later ==
    [Nxt EXCEPT !.now = now' + get_duration(Nxt, priv["A"])]

\* C15 (as stated): after animate(start, end) or animate(end), with no
\* further call, the configuration unchanged and the clock past
\* total_duration, the interpolated value is the requested end.
C15_AnimateReachesEnd ==
    [][\A e \in Vals :
          (animate_end(e) \/ \E s \in Vals : animate_set(s, e))
              => value(Later) = RInt(e)]_vars

\* C16: every start() is observed.  From start() until a running() call
\* the tracker is marked started, and a running() call made while it is
\* marked so returns true, however much time has passed and however often
\* reverse_direction() was called in between.
C16_StartObserved ==
    /\ [][start("A") => phase' = "armed"]_vars
    /\ [][(phase = "armed" /\ phase' # "armed") => running("A")]_vars
    /\ [][(running("A") /\ phase = "armed") => ret' = "true"]_vars

\* C16's case: the first running() after start() came when the whole
\* duration had elapsed, on a reversed tracker, and returned true.
C16_Witness ==
    /\ phase = "done"
    /\ ret = "true"
    /\ heap[priv["A"]].reverse
    /\ ~heap[priv["A"]].is_running
    /\ get_elapsed(Cur, priv["A"]) > get_duration(Cur, priv["A"])

\* C17: an animation always finishes.  Once start() has been called, with
\* the clock advancing, the configuration fixed, running() polled and no
\* further start() or reverse_direction(), running() eventually returns
\* false and returns false ever after.
C17_Finishes == [](phase # "idle" => <>[](ret = "false"))

\* C17's case: the end of a started animation has been reported and the
\* poll after it returned false.
C17_Witness ==
    /\ phase = "done"
    /\ ret = "false"
    /\ ~heap[priv["A"]].is_running
    /\ heap[priv["A"]].start_point > ClockStart + MaxTime - MaxDur

\* C18 (as stated): description equality is symmetric: a == b and b == a
\* give the same result.
C18_Symmetric ==
    codec.stage = "pair compared both ways" => codec.eq = codec.eq_swapped

\* View view holds arg under name if arg is a non-empty string, and nothing
\* under name otherwise.
Reflects(view, name, arg) ==
    get_property(view, name) =
        (IF ~arg.null /\ arg.chars # <<>> THEN {arg.chars} ELSE {})

\* C19: after a set_address(service_name, object_path) request for a surface
\* that maps to a view, and after any sequence of such requests, the view's
\* kde-appmenu-service-name is the last request's service_name if that is
\* non-null and non-empty and absent otherwise, and independently its
\* kde-appmenu-object-path follows the last request's object_path; a request
\* for a surface that maps to no view changes no property of any view.
C19_AddressProperties ==
    /\ [](\A view \in Views : \A request \in appmenu.last[view] :
             /\ Reflects(view, ServiceName, request.service_name)
             /\ Reflects(view, ObjectPath, request.object_path))
    /\ [][\A surface \in Surfaces :
            (/\ wl_surface_to_wayfire_view(surface) = NullPtr
             /\ \E service_name, object_path \in AddressArgs :
                   handle_kde_appmenu_set_address(surface, service_name, object_path))
                => appmenu'.props = appmenu.props]_vars

\* C19's case: the last request for view1 named a service and no path, the
\* one for view2 a path and an empty service; each view holds just that and
\* what it held of other plugins.
C19_Witness ==
    /\ appmenu.last["view1"] =
          {[service_name |-> CStr(<<"a">>), object_path |-> NullStr]}
    /\ appmenu.last["view2"] =
          {[service_name |-> CStr(<<>>), object_path |-> CStr(<<"b">>)]}
    /\ appmenu.props["view1"] = {<<"title", <<"t">>>>, <<ServiceName, <<"a">>>>}
    /\ appmenu.props["view2"] = {<<"title", <<"t">>>>, <<ObjectPath, <<"b">>>>}

=============================================================================
